---- MODULE Spec2Model ----
(***************************************************************************)
(* Model of the ComfyUI node TuonoResolutionSuggestDownscale               *)
(* (tuono_resolution_suggest_downscale.py).                                *)
(*                                                                         *)
(* A Python str is a sequence of one-character strings; the three          *)
(* non-ASCII characters of the source are written by code point            *)
(* ("U+2192" is the arrow of the preset labels, "U+2013" the dash of the   *)
(* error message).  A Python float is a binary64 value; the only floats    *)
(* the node multiplies by are the nearest doubles of 0.1 .. 1.0, which are *)
(* kept as the decimal tenths together with the exact representation       *)
(* error of the double (see Double).                                       *)
(***************************************************************************)
EXTENDS Integers, Sequences, FiniteSets, TLC

\* ------------------------------------------------------------------ bounds
\* image sides 0 .. MaxSmallDim are enumerated exhaustively
MaxSmallDim == 16
\* number of times the returned size is fed back as a new input image
MaxChain == 1

\* ------------------------------------------------------------ str helpers
\* str.startswith(prefix)
StartsWith(s, prefix) ==
    /\ Len(s) >= Len(prefix)
    /\ SubSeq(s, 1, Len(prefix)) = prefix

\* `sub in s`
Contains(s, sub) ==
    \E i \in 1..(Len(s) - Len(sub) + 1) : SubSeq(s, i, i + Len(sub) - 1) = sub

\* the upper-case ASCII letters and their lower-case forms
UpperToLower ==
    [c \in {"A", "B", "C", "D", "E", "F", "G", "H", "I", "J", "K", "L", "M",
            "N", "O", "P", "Q", "R", "S", "T", "U", "V", "W", "X", "Y", "Z"} |->
        CASE c = "A" -> "a" [] c = "B" -> "b" [] c = "C" -> "c" [] c = "D" -> "d"
          [] c = "E" -> "e" [] c = "F" -> "f" [] c = "G" -> "g" [] c = "H" -> "h"
          [] c = "I" -> "i" [] c = "J" -> "j" [] c = "K" -> "k" [] c = "L" -> "l"
          [] c = "M" -> "m" [] c = "N" -> "n" [] c = "O" -> "o" [] c = "P" -> "p"
          [] c = "Q" -> "q" [] c = "R" -> "r" [] c = "S" -> "s" [] c = "T" -> "t"
          [] c = "U" -> "u" [] c = "V" -> "v" [] c = "W" -> "w" [] c = "X" -> "x"
          [] c = "Y" -> "y" [] c = "Z" -> "z"]

\* str.lower()
Lower(s) ==
    [i \in 1..Len(s) |-> IF s[i] \in DOMAIN UpperToLower THEN UpperToLower[s[i]] ELSE s[i]]

\* index of the first occurrence of sub in s, 0 when there is none (str.find + 1)
Find(s, sub) ==
    IF Contains(s, sub)
    THEN CHOOSE i \in 1..(Len(s) - Len(sub) + 1) :
            /\ SubSeq(s, i, i + Len(sub) - 1) = sub
            /\ \A j \in 1..(i - 1) : SubSeq(s, j, j + Len(sub) - 1) # sub
    ELSE 0

\* s.split(sep)[0]
SplitHead(s, sep) ==
    IF Find(s, sep) = 0 THEN s ELSE SubSeq(s, 1, Find(s, sep) - 1)

\* s.split(sep, 1): the parts before and after the first sep (sep occurs in s)
SplitOnce(s, sep) ==
    <<SubSeq(s, 1, Find(s, sep) - 1), SubSeq(s, Find(s, sep) + Len(sep), Len(s))>>

\* s.split(sep): every part, in order
RECURSIVE Split(_, _)
Split(s, sep) ==
    IF Find(s, sep) = 0
    THEN <<s>>
    ELSE <<SubSeq(s, 1, Find(s, sep) - 1)>>
            \o Split(SubSeq(s, Find(s, sep) + Len(sep), Len(s)), sep)

\* str.strip() of the blanks the sources' texts contain
RECURSIVE Strip(_)
Strip(s) ==
    IF s = <<>> THEN s
    ELSE IF Head(s) = " " THEN Strip(Tail(s))
    ELSE IF s[Len(s)] = " " THEN Strip(SubSeq(s, 1, Len(s) - 1))
    ELSE s

DigitValue ==
    [c \in {"0", "1", "2", "3", "4", "5", "6", "7", "8", "9"} |->
        CASE c = "0" -> 0 [] c = "1" -> 1 [] c = "2" -> 2 [] c = "3" -> 3
          [] c = "4" -> 4 [] c = "5" -> 5 [] c = "6" -> 6 [] c = "7" -> 7
          [] c = "8" -> 8 [] c = "9" -> 9]

\* int(text) succeeds (no sign, no blanks: the callers strip first)
IsInt(s) ==
    /\ s # <<>>
    /\ \A i \in 1..Len(s) : s[i] \in DOMAIN DigitValue

\* int(text) of a decimal numeral
RECURSIVE ParseInt(_)
ParseInt(s) ==
    IF s = <<>> THEN 0
    ELSE 10 * ParseInt(SubSeq(s, 1, Len(s) - 1)) + DigitValue[s[Len(s)]]

\* ------------------------------------------------------------------ floats
\* The double nearest to p/10 is exactly p/10 + DoubleErr[p] / (5 * 2^56).
DoubleErr ==
    [p \in 1..10 |->
        CASE p = 1 -> 2 [] p = 2 -> 4 [] p = 3 -> -4 [] p = 4 -> 8 [] p = 5 -> 0
          [] p = 6 -> -8 [] p = 7 -> -16 [] p = 8 -> 16 [] p = 9 -> 8 [] p = 10 -> 0]

\* a float literal d.d, or the value of 1.0 - reduction / 100.0, as a double
Double(tenths) == [tenths |-> tenths, err |-> DoubleErr[tenths]]

Abs(x) == IF x < 0 THEN -x ELSE x

\* least power of two greater than n
RECURSIVE Pow2Above(_)
Pow2Above(n) == IF n = 0 THEN 1 ELSE 2 * Pow2Above(n \div 2)

\* round(w * scale): the binary64 product, then Python's round-half-to-even.
\* The exact product is w*tenths/10 + w*err/(5*2^56).  Unless w*tenths/10 is
\* a half-integer n + 1/2 the error is too small to move the result.  At a
\* half-integer the product rounds to the double n + 1/2 itself when the
\* error is at most half a unit in the last place of n + 1/2, which is
\* 2^(k-53) = 20 * 2^(k+1) / (5 * 2^56) for 2^k <= n + 1/2 < 2^(k+1);
\* otherwise it lands on the side the
\* error points to.
RoundMul(w, scale) ==
    LET q == w * scale.tenths
        n == q \div 10
        r == q % 10
        halfEven == IF n % 2 = 0 THEN n ELSE n + 1
    IN  IF r < 5 THEN n
        ELSE IF r > 5 THEN n + 1
        ELSE IF Abs(w * scale.err) <= 20 * Pow2Above(n) THEN halfEven
        ELSE IF scale.err < 0 THEN n
        ELSE n + 1

\* ------------------------------------------------------- INPUT_TYPES
\* the four model_profile choices, in the order of the dropdown
ModelProfiles ==
    << <<"m", "u", "l", "t", "i", "p", "l", "e", "_", "o", "f", ":", " ", "8", " ", "(", "S", "D", " ", "/", " ", "G", "e", "n", "e", "r", "a", "l", " ", "(", "8", ")", ")">>,
       <<"m", "u", "l", "t", "i", "p", "l", "e", "_", "o", "f", ":", " ", "1", "6", " ", "(", "W", "A", "N", " ", "2", ".", "2", " ", "/", " ", "S", "t", "r", "i", "c", "t", " ", "(", "1", "6", ")", ")">>,
       <<"m", "u", "l", "t", "i", "p", "l", "e", "_", "o", "f", ":", " ", "3", "2", " ", "(", "V", "i", "d", "e", "o", " ", "/", " ", "A", "d", "v", "a", "n", "c", "e", "d", " ", "(", "3", "2", ")", ")">>,
       <<"m", "u", "l", "t", "i", "p", "l", "e", "_", "o", "f", ":", " ", "6", "4", " ", "(", "L", "e", "g", "a", "c", "y", " ", "/", " ", "E", "x", "t", "r", "a", " ", "S", "a", "f", "e", " ", "(", "6", "4", ")", ")">> >>

\* the eleven scale_preset choices, in the order of the dropdown
ScalePresets ==
    << <<"0", "%", " ", "s", "m", "a", "l", "l", "e", "r", " ", "(", "k", "e", "e", "p", " ", "o", "r", "i", "g", "i", "n", "a", "l", ")", " ", "(", "1", "9", "2", "0", "x", "1", "0", "8", "0", "U+2192", "1", "9", "2", "0", "x", "1", "0", "8", "0", ",", " ", "1", "2", "8", "0", "x", "7", "2", "0", "U+2192", "1", "2", "8", "0", "x", "7", "2", "0", ")">>,
       <<"1", "0", "%", " ", "s", "m", "a", "l", "l", "e", "r", " ", "(", "1", "9", "2", "0", "x", "1", "0", "8", "0", "U+2192", "1", "7", "2", "8", "x", "9", "7", "2", ",", " ", "1", "2", "8", "0", "x", "7", "2", "0", "U+2192", "1", "1", "5", "2", "x", "6", "4", "8", ")">>,
       <<"2", "0", "%", " ", "s", "m", "a", "l", "l", "e", "r", " ", "(", "1", "9", "2", "0", "x", "1", "0", "8", "0", "U+2192", "1", "5", "3", "6", "x", "8", "6", "4", ",", " ", "1", "2", "8", "0", "x", "7", "2", "0", "U+2192", "1", "0", "2", "4", "x", "5", "7", "6", ")">>,
       <<"3", "0", "%", " ", "s", "m", "a", "l", "l", "e", "r", " ", "(", "1", "9", "2", "0", "x", "1", "0", "8", "0", "U+2192", "1", "3", "4", "4", "x", "7", "5", "6", ",", " ", "1", "2", "8", "0", "x", "7", "2", "0", "U+2192", "8", "9", "6", "x", "5", "0", "4", ")">>,
       <<"4", "0", "%", " ", "s", "m", "a", "l", "l", "e", "r", " ", "(", "1", "9", "2", "0", "x", "1", "0", "8", "0", "U+2192", "1", "1", "5", "2", "x", "6", "4", "8", ",", " ", "1", "2", "8", "0", "x", "7", "2", "0", "U+2192", "7", "6", "8", "x", "4", "3", "2", ")">>,
       <<"5", "0", "%", " ", "s", "m", "a", "l", "l", "e", "r", " ", "(", "1", "9", "2", "0", "x", "1", "0", "8", "0", "U+2192", "9", "6", "0", "x", "5", "4", "0", ",", " ", "1", "2", "8", "0", "x", "7", "2", "0", "U+2192", "6", "4", "0", "x", "3", "6", "0", ")">>,
       <<"6", "0", "%", " ", "s", "m", "a", "l", "l", "e", "r", " ", "(", "1", "9", "2", "0", "x", "1", "0", "8", "0", "U+2192", "7", "6", "8", "x", "4", "3", "2", ",", " ", "1", "2", "8", "0", "x", "7", "2", "0", "U+2192", "5", "1", "2", "x", "2", "8", "8", ")">>,
       <<"R", "e", "s", "o", "l", "u", "t", "i", "o", "n", " ", "s", "u", "g", "g", "e", "s", "t", "i", "o", "n", " ", "1", " ", "(", "h", "i", "g", "h", "e", "s", "t", " ", "f", "r", "o", "m", " ", "t", "a", "b", "l", "e", ")">>,
       <<"R", "e", "s", "o", "l", "u", "t", "i", "o", "n", " ", "s", "u", "g", "g", "e", "s", "t", "i", "o", "n", " ", "2", " ", "(", "l", "o", "w", "e", "r", " ", "f", "r", "o", "m", " ", "t", "a", "b", "l", "e", ")">>,
       <<"R", "e", "s", "o", "l", "u", "t", "i", "o", "n", " ", "s", "u", "g", "g", "e", "s", "t", "i", "o", "n", " ", "3", " ", "(", "l", "o", "w", "e", "s", "t", " ", "f", "r", "o", "m", " ", "t", "a", "b", "l", "e", ")">>,
       <<"R", "e", "s", "o", "l", "u", "t", "i", "o", "n", " ", "s", "u", "g", "g", "e", "s", "t", "i", "o", "n", " ", "4", " ", "(", "v", "e", "r", "y", " ", "l", "o", "w", " ", "V", "R", "A", "M", ")">> >>

DefaultModelProfile == ModelProfiles[2]
DefaultScalePreset == ScalePresets[4]

\* selector strings outside the dropdowns (a workflow file can carry any string)
OtherProfiles ==
    { <<"m", "u", "l", "t", "i", "p", "l", "e", "_", "o", "f", ":", " ", "1", "2", "8">>,
      <<"m", "u", "l", "t", "i", "p", "l", "e", "_", "o", "f", ":", " ", "1", "6", " ", "(", "c", "u", "s", "t", "o", "m", ")">>,
      <<"S", "D", "X", "L">> }

OtherPresets ==
    { <<"R", "e", "s", "o", "l", "u", "t", "i", "o", "n", " ", "s", "u", "g", "g", "e", "s", "t", "i", "o", "n", " ", "5", " ", "(", "c", "u", "s", "t", "o", "m", ")">>,
      <<"R", "e", "s", "o", "l", "u", "t", "i", "o", "n", " ", "s", "u", "g", "g", "e", "s", "t", "i", "o", "n">>,
      <<"R", "e", "s", "o", "l", "u", "t", "i", "o", "n", " ", "s", "u", "g", "g", "e", "s", "t", "i", "o", "n", " ", "1", "2">>,
      <<"7", "0", "%", " ", "s", "m", "a", "l", "l", "e", "r">>,
      <<"1", "0", "%", " ", "o", "f", "f">>,
      <<"r", "e", "s", "o", "l", "u", "t", "i", "o", "n", " ", "s", "u", "g", "g", "e", "s", "t", "i", "o", "n", " ", "1">> }

\* ------------------------------------------------------- helpers: core

\* faulty variant: rounds up to the next multiple instead of down
snap_dim_ceil(value, multiple) ==
    IF value <= 0 THEN multiple
    ELSE ((value + multiple - 1) \div multiple) * multiple

\* faulty variant: the greatest multiple strictly below value
snap_dim_strictly_below(value, multiple) ==
    IF value <= 0 THEN multiple
    ELSE LET snapped == ((value - 1) \div multiple) * multiple
         IN  IF snapped < multiple THEN multiple ELSE snapped

_snap_dim(value, multiple) ==
    IF value <= 0 THEN multiple
    ELSE LET snapped == (value \div multiple) * multiple
         IN  IF snapped < multiple THEN multiple ELSE snapped

\* faulty variant: an unknown profile falls back to the dropdown's default (16)
profile_to_multiple_default16(model_profile) ==
    IF StartsWith(model_profile, <<"m", "u", "l", "t", "i", "p", "l", "e", "_", "o", "f", ":", " ", "8">>)
        THEN <<8, <<"S", "D", " ", "/", " ", "G", "e", "n", "e", "r", "a", "l", " ", "(", "8", ")">>>>
    ELSE IF StartsWith(model_profile, <<"m", "u", "l", "t", "i", "p", "l", "e", "_", "o", "f", ":", " ", "3", "2">>)
        THEN <<32, <<"V", "i", "d", "e", "o", " ", "/", " ", "A", "d", "v", "a", "n", "c", "e", "d", " ", "(", "3", "2", ")">>>>
    ELSE IF StartsWith(model_profile, <<"m", "u", "l", "t", "i", "p", "l", "e", "_", "o", "f", ":", " ", "6", "4">>)
        THEN <<64, <<"L", "e", "g", "a", "c", "y", " ", "/", " ", "E", "x", "t", "r", "a", " ", "S", "a", "f", "e", " ", "(", "6", "4", ")">>>>
    ELSE <<16, <<"W", "A", "N", " ", "2", ".", "2", " ", "/", " ", "S", "t", "r", "i", "c", "t", " ", "(", "1", "6", ")">>>>

\* (multiple_of, profile_label)
_profile_to_multiple(model_profile) ==
    IF StartsWith(model_profile, <<"m", "u", "l", "t", "i", "p", "l", "e", "_", "o", "f", ":", " ", "8">>)
        THEN <<8, <<"S", "D", " ", "/", " ", "G", "e", "n", "e", "r", "a", "l", " ", "(", "8", ")">>>>
    ELSE IF StartsWith(model_profile, <<"m", "u", "l", "t", "i", "p", "l", "e", "_", "o", "f", ":", " ", "1", "6">>)
        THEN <<16, <<"W", "A", "N", " ", "2", ".", "2", " ", "/", " ", "S", "t", "r", "i", "c", "t", " ", "(", "1", "6", ")">>>>
    ELSE IF StartsWith(model_profile, <<"m", "u", "l", "t", "i", "p", "l", "e", "_", "o", "f", ":", " ", "3", "2">>)
        THEN <<32, <<"V", "i", "d", "e", "o", " ", "/", " ", "A", "d", "v", "a", "n", "c", "e", "d", " ", "(", "3", "2", ")">>>>
    ELSE IF StartsWith(model_profile, <<"m", "u", "l", "t", "i", "p", "l", "e", "_", "o", "f", ":", " ", "6", "4">>)
        THEN <<64, <<"L", "e", "g", "a", "c", "y", " ", "/", " ", "E", "x", "t", "r", "a", " ", "S", "a", "f", "e", " ", "(", "6", "4", ")">>>>
    ELSE <<8, <<"S", "D", " ", "/", " ", "G", "e", "n", "e", "r", "a", "l", " ", "(", "8", ")">>>>

\* ------------------------------------------------------- helpers: percentage presets

\* faulty variant: scale = reduction / 100.0, the part removed instead of the part kept
scale_from_percentage_inverted(scale_preset) ==
    LET reduction ==
            IF StartsWith(scale_preset, <<"0", "%">>) THEN 0
            ELSE IF StartsWith(scale_preset, <<"1", "0", "%">>) THEN 10
            ELSE IF StartsWith(scale_preset, <<"2", "0", "%">>) THEN 20
            ELSE IF StartsWith(scale_preset, <<"3", "0", "%">>) THEN 30
            ELSE IF StartsWith(scale_preset, <<"4", "0", "%">>) THEN 40
            ELSE IF StartsWith(scale_preset, <<"5", "0", "%">>) THEN 50
            ELSE IF StartsWith(scale_preset, <<"6", "0", "%">>) THEN 60
            ELSE 0
        tenths == reduction \div 10
    IN  <<reduction, IF tenths < 1 THEN Double(1) ELSE Double(tenths)>>

\* (reduction_percent, scale); scale = 1.0 - reduction / 100.0 is the double
\* nearest to (100 - reduction) / 100 for each of the seven reductions
_scale_from_percentage_preset(scale_preset) ==
    LET reduction ==
            IF StartsWith(scale_preset, <<"0", "%">>) THEN 0
            ELSE IF StartsWith(scale_preset, <<"1", "0", "%">>) THEN 10
            ELSE IF StartsWith(scale_preset, <<"2", "0", "%">>) THEN 20
            ELSE IF StartsWith(scale_preset, <<"3", "0", "%">>) THEN 30
            ELSE IF StartsWith(scale_preset, <<"4", "0", "%">>) THEN 40
            ELSE IF StartsWith(scale_preset, <<"5", "0", "%">>) THEN 50
            ELSE IF StartsWith(scale_preset, <<"6", "0", "%">>) THEN 60
            ELSE 0
        tenths == (100 - reduction) \div 10
    IN  <<reduction, IF tenths < 1 THEN Double(1) ELSE Double(tenths)>>

\* faulty variant: the safety clamp returns the original side instead of re-snapping it
scale_and_snap_clamp_to_original(w, h, scale, multiple_of) ==
    LET raw_w == RoundMul(w, scale)
        raw_h == RoundMul(h, scale)
        snapped_w == _snap_dim(raw_w, multiple_of)
        snapped_h == _snap_dim(raw_h, multiple_of)
    IN  << IF snapped_w > w THEN w ELSE snapped_w,
           IF snapped_h > h THEN h ELSE snapped_h,
           raw_w, raw_h >>

\* (snapped_w, snapped_h, raw_w, raw_h)
_scale_and_snap(w, h, scale, multiple_of) ==
    LET raw_w == RoundMul(w, scale)
        raw_h == RoundMul(h, scale)
        snapped_w == _snap_dim(raw_w, multiple_of)
        snapped_h == _snap_dim(raw_h, multiple_of)
    IN  << IF snapped_w > w THEN _snap_dim(w, multiple_of) ELSE snapped_w,
           IF snapped_h > h THEN _snap_dim(h, multiple_of) ELSE snapped_h,
           raw_w, raw_h >>

\* ------------------------------------------------------- helpers: common resolutions table

\* the entries of the dict literal, <<key width, key height, text>>, in source order
TableLiteral ==
    <<
       <<3840, 2160,
         <<"2", "5", "6", "0", "x", "1", "4", "4", "0", ",", " ", "1", "9", "2", "0", "x", "1", "0", "8", "0", ",", " ", "1", "2", "8", "0", "x", "7", "2", "0", ",", " ", "9", "6", "0", "x", "5", "4", "0", ",", " ", "8", "5", "4", "x", "4", "8", "0">>>>,
       <<3440, 1440,
         <<"2", "5", "6", "0", "x", "1", "0", "8", "0", ",", " ", "2", "5", "6", "0", "x", "1", "4", "4", "0", ",", " ", "1", "9", "2", "0", "x", "8", "1", "0", ",", " ", "1", "6", "0", "0", "x", "7", "2", "0", ",", " ", "1", "2", "8", "0", "x", "5", "4", "0">>>>,
       <<2560, 1440,
         <<"1", "9", "2", "0", "x", "1", "0", "8", "0", ",", " ", "1", "6", "0", "0", "x", "9", "0", "0", ",", " ", "1", "2", "8", "0", "x", "7", "2", "0", ",", " ", "1", "0", "2", "4", "x", "5", "7", "6", ",", " ", "9", "6", "0", "x", "5", "4", "0">>>>,
       <<2560, 1080,
         <<"1", "9", "2", "0", "x", "8", "1", "0", ",", " ", "1", "9", "2", "0", "x", "8", "0", "0", ",", " ", "1", "6", "0", "0", "x", "9", "0", "0", ",", " ", "1", "2", "8", "0", "x", "7", "2", "0", ",", " ", "1", "0", "2", "4", "x", "5", "7", "6">>>>,
       <<2048, 1152,
         <<"1", "9", "2", "0", "x", "1", "0", "8", "0", ",", " ", "1", "6", "0", "0", "x", "9", "0", "0", ",", " ", "1", "2", "8", "0", "x", "7", "2", "0", ",", " ", "1", "0", "2", "4", "x", "5", "7", "6", ",", " ", "9", "6", "0", "x", "5", "4", "0">>>>,
       <<1024, 1024,
         <<"8", "9", "6", "x", "8", "9", "6", ",", " ", "7", "6", "8", "x", "7", "6", "8", ",", " ", "6", "4", "0", "x", "6", "4", "0">>>>,
       <<1152, 896,
         <<"1", "0", "2", "4", "x", "8", "0", "0", ",", " ", "9", "6", "0", "x", "7", "6", "8", ",", " ", "8", "9", "6", "x", "7", "3", "6">>>>,
       <<896, 1152,
         <<"7", "6", "8", "x", "9", "9", "2", ",", " ", "6", "7", "2", "x", "8", "6", "4", ",", " ", "5", "7", "6", "x", "7", "3", "6">>>>,
       <<1216, 832,
         <<"1", "1", "5", "2", "x", "7", "6", "8", ",", " ", "1", "0", "2", "4", "x", "7", "0", "4", ",", " ", "8", "9", "6", "x", "6", "4", "0">>>>,
       <<832, 1216,
         <<"7", "6", "8", "x", "1", "1", "2", "0", ",", " ", "7", "0", "4", "x", "1", "0", "2", "4", ",", " ", "6", "4", "0", "x", "9", "2", "8">>>>,
       <<1344, 768,
         <<"1", "2", "1", "6", "x", "7", "0", "4", ",", " ", "1", "1", "5", "2", "x", "6", "7", "2", ",", " ", "1", "0", "2", "4", "x", "5", "7", "6">>>>,
       <<768, 1344,
         <<"7", "0", "4", "x", "1", "2", "1", "6", ",", " ", "6", "7", "2", "x", "1", "1", "5", "2", ",", " ", "5", "7", "6", "x", "1", "0", "2", "4">>>>,
       <<1536, 640,
         <<"1", "3", "4", "4", "x", "5", "7", "6", ",", " ", "1", "2", "1", "6", "x", "5", "1", "2", ",", " ", "1", "0", "2", "4", "x", "4", "4", "8">>>>,
       <<640, 1536,
         <<"5", "7", "6", "x", "1", "3", "4", "4", ",", " ", "5", "1", "2", "x", "1", "2", "1", "6", ",", " ", "4", "4", "8", "x", "1", "0", "2", "4">>>>,
       <<640, 960,
         <<"5", "7", "6", "x", "8", "6", "4", ",", " ", "5", "1", "2", "x", "7", "6", "8", ",", " ", "4", "8", "0", "x", "7", "2", "0">>>>,
       <<768, 1152,
         <<"7", "0", "4", "x", "1", "0", "5", "6", ",", " ", "6", "4", "0", "x", "9", "6", "0", ",", " ", "5", "7", "6", "x", "8", "6", "4">>>>,
       <<800, 1200,
         <<"7", "0", "4", "x", "1", "0", "5", "6", ",", " ", "6", "4", "0", "x", "9", "6", "0", ",", " ", "5", "7", "6", "x", "8", "6", "4">>>>,
       <<832, 1216,
         <<"7", "6", "8", "x", "1", "1", "2", "0", ",", " ", "7", "0", "4", "x", "1", "0", "2", "4", ",", " ", "6", "4", "0", "x", "9", "2", "8">>>>,
       <<1920, 1080,
         <<"1", "6", "0", "0", "x", "9", "0", "0", ",", " ", "1", "5", "3", "6", "x", "8", "6", "4", ",", " ", "1", "2", "8", "0", "x", "7", "2", "0", ",", " ", "1", "0", "2", "4", "x", "5", "7", "6", ",", " ", "9", "6", "0", "x", "5", "4", "0">>>>,
       <<1720, 720,
         <<"1", "6", "0", "0", "x", "7", "2", "0", ",", " ", "1", "2", "8", "0", "x", "7", "2", "0", ",", " ", "1", "0", "2", "4", "x", "5", "7", "6", ",", " ", "9", "6", "0", "x", "5", "4", "0", ",", " ", "8", "5", "4", "x", "4", "8", "0">>>>,
       <<1680, 1050,
         <<"1", "6", "0", "0", "x", "9", "0", "0", ",", " ", "1", "4", "4", "0", "x", "9", "0", "0", ",", " ", "1", "2", "8", "0", "x", "8", "0", "0", ",", " ", "1", "2", "8", "0", "x", "7", "2", "0", ",", " ", "1", "0", "2", "4", "x", "6", "4", "0">>>>,
       <<1600, 900,
         <<"1", "4", "4", "0", "x", "8", "1", "0", ",", " ", "1", "2", "8", "0", "x", "7", "2", "0", ",", " ", "1", "0", "2", "4", "x", "5", "7", "6">>>>,
       <<1536, 864,
         <<"1", "4", "4", "0", "x", "8", "1", "0", ",", " ", "1", "2", "8", "0", "x", "7", "2", "0", ",", " ", "1", "0", "2", "4", "x", "5", "7", "6">>>>,
       <<1366, 768,
         <<"1", "2", "8", "0", "x", "7", "2", "0", ",", " ", "1", "1", "5", "2", "x", "6", "4", "8", ",", " ", "1", "0", "2", "4", "x", "5", "7", "6">>>>,
       <<1360, 768,
         <<"1", "2", "8", "0", "x", "7", "2", "0", ",", " ", "1", "1", "5", "2", "x", "6", "4", "8", ",", " ", "1", "0", "2", "4", "x", "5", "7", "6">>>>,
       <<1280, 720,
         <<"1", "1", "5", "2", "x", "6", "4", "8", ",", " ", "1", "0", "2", "4", "x", "5", "7", "6", ",", " ", "9", "6", "0", "x", "5", "4", "0">>>>,
       <<1270, 720,
         <<"1", "1", "5", "2", "x", "6", "4", "8", ",", " ", "1", "0", "2", "4", "x", "5", "7", "6", ",", " ", "9", "6", "0", "x", "5", "4", "0">>>>,
       <<1024, 576,
         <<"9", "6", "0", "x", "5", "4", "0", ",", " ", "8", "5", "4", "x", "4", "8", "0", ",", " ", "7", "6", "8", "x", "4", "3", "2">>>>,
       <<960, 540,
         <<"8", "5", "4", "x", "4", "8", "0", ",", " ", "8", "4", "8", "x", "4", "8", "0", ",", " ", "8", "0", "0", "x", "4", "5", "0">>>>,
       <<854, 480,
         <<"8", "0", "0", "x", "4", "5", "0", ",", " ", "7", "6", "8", "x", "4", "3", "2", ",", " ", "6", "4", "0", "x", "3", "6", "0">>>>,
       <<848, 480,
         <<"8", "0", "0", "x", "4", "5", "0", ",", " ", "7", "6", "8", "x", "4", "3", "2", ",", " ", "6", "4", "0", "x", "3", "6", "0">>>>,
       <<800, 450,
         <<"7", "6", "8", "x", "4", "3", "2", ",", " ", "7", "2", "0", "x", "4", "0", "5", ",", " ", "6", "4", "0", "x", "3", "6", "0">>>>,
       <<720, 405,
         <<"6", "4", "0", "x", "3", "6", "0", ",", " ", "5", "7", "6", "x", "3", "2", "4", ",", " ", "5", "1", "2", "x", "2", "8", "8">>>>,
       <<640, 360,
         <<"5", "7", "6", "x", "3", "2", "4", ",", " ", "5", "1", "2", "x", "2", "8", "8", ",", " ", "4", "2", "6", "x", "2", "4", "0">>>>,
       <<426, 240,
         <<"4", "0", "0", "x", "2", "2", "5", ",", " ", "3", "8", "4", "x", "2", "1", "6", ",", " ", "3", "2", "0", "x", "1", "8", "0">>>>,
       <<2048, 2048,
         <<"1", "5", "3", "6", "x", "1", "5", "3", "6", ",", " ", "1", "0", "2", "4", "x", "1", "0", "2", "4", ",", " ", "7", "6", "8", "x", "7", "6", "8">>>>,
       <<1536, 1536,
         <<"1", "2", "8", "0", "x", "1", "2", "8", "0", ",", " ", "1", "0", "2", "4", "x", "1", "0", "2", "4", ",", " ", "7", "6", "8", "x", "7", "6", "8">>>>,
       <<1280, 1280,
         <<"1", "0", "2", "4", "x", "1", "0", "2", "4", ",", " ", "8", "9", "6", "x", "8", "9", "6", ",", " ", "7", "6", "8", "x", "7", "6", "8">>>>,
       <<1024, 1024,
         <<"8", "9", "6", "x", "8", "9", "6", ",", " ", "7", "6", "8", "x", "7", "6", "8", ",", " ", "6", "4", "0", "x", "6", "4", "0">>>>,
       <<896, 896,
         <<"7", "6", "8", "x", "7", "6", "8", ",", " ", "7", "0", "4", "x", "7", "0", "4", ",", " ", "6", "4", "0", "x", "6", "4", "0">>>>,
       <<768, 768,
         <<"6", "4", "0", "x", "6", "4", "0", ",", " ", "5", "7", "6", "x", "5", "7", "6", ",", " ", "5", "1", "2", "x", "5", "1", "2">>>>,
       <<640, 640,
         <<"5", "7", "6", "x", "5", "7", "6", ",", " ", "5", "1", "2", "x", "5", "1", "2", ",", " ", "4", "8", "0", "x", "4", "8", "0">>>>,
       <<512, 512,
         <<"4", "4", "8", "x", "4", "4", "8", ",", " ", "3", "8", "4", "x", "3", "8", "4", ",", " ", "3", "2", "0", "x", "3", "2", "0">>>>,
       <<1080, 1920,
         <<"9", "0", "0", "x", "1", "6", "0", "0", ",", " ", "7", "2", "0", "x", "1", "2", "8", "0", ",", " ", "5", "4", "0", "x", "9", "6", "0">>>>,
       <<720, 1280,
         <<"6", "4", "0", "x", "1", "1", "3", "8", ",", " ", "5", "4", "0", "x", "9", "6", "0", ",", " ", "4", "8", "0", "x", "8", "5", "3">>>>,
       <<640, 1136,
         <<"5", "7", "6", "x", "1", "0", "2", "4", ",", " ", "5", "4", "0", "x", "9", "6", "0", ",", " ", "4", "8", "0", "x", "8", "5", "3">>>>,
       <<1152, 896,
         <<"1", "0", "2", "4", "x", "8", "0", "0", ",", " ", "9", "6", "0", "x", "7", "6", "8", ",", " ", "8", "9", "6", "x", "6", "7", "2">>>>
    >>

\* the keys of the dict
TableKeys == { <<TableLiteral[i][1], TableLiteral[i][2]>> : i \in DOMAIN TableLiteral }

\* the dict the literal evaluates to: a key written twice keeps its last value
_get_common_resolution_table ==
    [key \in TableKeys |->
        LET last == CHOOSE i \in DOMAIN TableLiteral :
                        /\ <<TableLiteral[i][1], TableLiteral[i][2]>> = key
                        /\ \A j \in DOMAIN TableLiteral :
                              <<TableLiteral[j][1], TableLiteral[j][2]>> = key => j <= i
        IN  TableLiteral[last][3]]

\* the (w, h) pairs of the parts "<int>x<int>" of a comma-separated text;
\* a part without "x", or whose halves are not integers, is skipped
RECURSIVE ParseParts(_)
ParseParts(parts) ==
    IF parts = <<>> THEN <<>>
    ELSE LET p == Strip(Head(parts))
             halves == SplitOnce(p, <<"x">>)
             w_str == Strip(halves[1])
             h_str == Strip(halves[2])
         IN  IF ~Contains(p, <<"x">>) THEN ParseParts(Tail(parts))
             ELSE IF IsInt(w_str) /\ IsInt(h_str)
                 THEN <<<<ParseInt(w_str), ParseInt(h_str)>>>> \o ParseParts(Tail(parts))
             ELSE ParseParts(Tail(parts))

_parse_res_list(text) == ParseParts(Split(text, <<",">>))

\* the two parts of the last info line: the table text of the input size (or
\* the no-entries text) and the 50% size
_static_resolution_suggestions(current_w, current_h, multiple_of) ==
    LET table == _get_common_resolution_table
        key == <<current_w, current_h>>
        base == IF key \in DOMAIN table
                THEN <<"suggested/common resolutions: ", table[key]>>
                ELSE <<"suggested/common resolutions: (no static entries for this input size)">>
        low == _scale_and_snap(current_w, current_h, Double(5), multiple_of)
    IN  <<base, <<"less common lower resolution (same aspect ratio): ", low[1], "x", low[2]>>>>

\* ------------------------------------------------------- helpers: resolution suggestion presets

\* faulty variant: rank 4 is looked up in the table like the other ranks (index 3,
\* clamped to the last entry)
suggestion_target_rank4_from_table(w, h, multiple_of, preset_lower, suggestions) ==
    LET is1 == Contains(preset_lower, <<"s", "u", "g", "g", "e", "s", "t", "i", "o", "n", " ", "1">>)
        is2 == Contains(preset_lower, <<"s", "u", "g", "g", "e", "s", "t", "i", "o", "n", " ", "2">>)
        is3 == Contains(preset_lower, <<"s", "u", "g", "g", "e", "s", "t", "i", "o", "n", " ", "3">>)
        is4 == Contains(preset_lower, <<"s", "u", "g", "g", "e", "s", "t", "i", "o", "n", " ", "4">>)
        idx == IF is1 THEN 1 ELSE IF is2 THEN 2 ELSE IF is3 THEN 3 ELSE IF is4 THEN 4 ELSE 0  \* 0 stands for None
        target == IF idx <= Len(suggestions) THEN suggestions[idx]
                  ELSE suggestions[Len(suggestions)]
        snapped_w == _snap_dim(target[1], multiple_of)
        snapped_h == _snap_dim(target[2], multiple_of)
        scale == IF is1 THEN Double(8)
                 ELSE IF is2 THEN Double(7)
                 ELSE IF is3 THEN Double(6)
                 ELSE Double(5)
    IN  IF suggestions # <<>> /\ idx # 0
        THEN << IF snapped_w > w THEN _snap_dim(w, multiple_of) ELSE snapped_w,
                IF snapped_h > h THEN _snap_dim(h, multiple_of) ELSE snapped_h,
                target[1], target[2] >>
        ELSE _scale_and_snap(w, h, scale, multiple_of)

\* faulty variant: the rank is used as the 0-based index, so rank 1 takes the second entry
suggestion_target_off_by_one(w, h, multiple_of, preset_lower, suggestions) ==
    LET is1 == Contains(preset_lower, <<"s", "u", "g", "g", "e", "s", "t", "i", "o", "n", " ", "1">>)
        is2 == Contains(preset_lower, <<"s", "u", "g", "g", "e", "s", "t", "i", "o", "n", " ", "2">>)
        is3 == Contains(preset_lower, <<"s", "u", "g", "g", "e", "s", "t", "i", "o", "n", " ", "3">>)
        \* 0 stands for None
        idx == IF is1 THEN 1 ELSE IF is2 THEN 2 ELSE IF is3 THEN 3 ELSE 0
        target == IF idx + 1 <= Len(suggestions) THEN suggestions[idx + 1]
                  ELSE suggestions[Len(suggestions)]
        snapped_w == _snap_dim(target[1], multiple_of)
        snapped_h == _snap_dim(target[2], multiple_of)
        scale == IF is1 THEN Double(8)
                 ELSE IF is2 THEN Double(7)
                 ELSE IF is3 THEN Double(6)
                 ELSE Double(5)
    IN  IF \/ Contains(preset_lower, <<"s", "u", "g", "g", "e", "s", "t", "i", "o", "n", " ", "4">>)
           \/ Contains(preset_lower, <<"v", "e", "r", "y", " ", "l", "o", "w", " ", "v", "r", "a", "m">>)
        THEN _scale_and_snap(w, h, Double(5), multiple_of)
        ELSE IF suggestions # <<>> /\ idx # 0
        THEN << IF snapped_w > w THEN _snap_dim(w, multiple_of) ELSE snapped_w,
                IF snapped_h > h THEN _snap_dim(h, multiple_of) ELSE snapped_h,
                target[1], target[2] >>
        ELSE _scale_and_snap(w, h, scale, multiple_of)

\* the body of _get_suggestion_target once preset_lower and the parsed list
\* of the table are known
SuggestionTarget(w, h, multiple_of, preset_lower, suggestions) ==
    LET is1 == Contains(preset_lower, <<"s", "u", "g", "g", "e", "s", "t", "i", "o", "n", " ", "1">>)
        is2 == Contains(preset_lower, <<"s", "u", "g", "g", "e", "s", "t", "i", "o", "n", " ", "2">>)
        is3 == Contains(preset_lower, <<"s", "u", "g", "g", "e", "s", "t", "i", "o", "n", " ", "3">>)
        \* 0 stands for None
        idx == IF is1 THEN 1 ELSE IF is2 THEN 2 ELSE IF is3 THEN 3 ELSE 0
        target == IF idx <= Len(suggestions) THEN suggestions[idx]
                  ELSE suggestions[Len(suggestions)]
        snapped_w == _snap_dim(target[1], multiple_of)
        snapped_h == _snap_dim(target[2], multiple_of)
        scale == IF is1 THEN Double(8)
                 ELSE IF is2 THEN Double(7)
                 ELSE IF is3 THEN Double(6)
                 ELSE Double(5)
    IN  IF \/ Contains(preset_lower, <<"s", "u", "g", "g", "e", "s", "t", "i", "o", "n", " ", "4">>)
           \/ Contains(preset_lower, <<"v", "e", "r", "y", " ", "l", "o", "w", " ", "v", "r", "a", "m">>)
        THEN _scale_and_snap(w, h, Double(5), multiple_of)
        ELSE IF suggestions # <<>> /\ idx # 0
        THEN << IF snapped_w > w THEN _snap_dim(w, multiple_of) ELSE snapped_w,
                IF snapped_h > h THEN _snap_dim(h, multiple_of) ELSE snapped_h,
                target[1], target[2] >>
        ELSE _scale_and_snap(w, h, scale, multiple_of)

\* (new_w, new_h, raw_w, raw_h)
_get_suggestion_target(w, h, multiple_of, scale_preset) ==
    LET table == _get_common_resolution_table
        key == <<w, h>>
    IN  CHOOSE r \in { SuggestionTarget(w, h, multiple_of, preset_lower, suggestions) :
                        preset_lower \in {Lower(scale_preset)},
                        suggestions \in {IF key \in DOMAIN table
                                         THEN _parse_res_list(table[key]) ELSE <<>>} } : TRUE

\* ------------------------------------------------------- main

\* an IMAGE tensor [batch, height, width, channels]; id names the pixel data
Image(id, w, h) == [id |-> id, shape |-> <<1, h, w, 3>>]

\* The info string for a valid size: the sequence of the parts that the code
\* joins with " | "; the numbers of a part are kept as numbers, and reduction
\* and scale as exact ratios <<numerator, denominator>> in place of their
\* "%.1f" and "%.4f" renderings.  new is (new_w, new_h, raw_w, raw_h).
Info(w, h, multiple_of, profile_label, scale_preset, reduction_percent, scale, new) ==
    LET simple_preset == SplitHead(scale_preset, <<" ", "(">>)
        suggestions_info == _static_resolution_suggestions(w, h, multiple_of)
    IN  << <<"multiple_of: ", multiple_of, profile_label>>,
           <<"scale_preset=", simple_preset, "reduction", reduction_percent, "scale", scale>>,
           <<"input image: ", w, "x", h>>,
           <<"result: raw ", new[3], "x", new[4], " -> snapped ", new[1], "x", new[2]>>,
           suggestions_info[1],
           suggestions_info[2] >>

\* the message of the early return
InvalidInfo == << <<"Invalid image size", " ", "U+2013", " cannot calculate.">> >>

\* calc after the size check: the returned tuple (image, width, height, info)
Plan(image, w, h, model_profile, scale_preset) ==
    LET profile == _profile_to_multiple(model_profile)
        multiple_of == profile[1]
        profile_label == profile[2]
        is_suggestion == StartsWith(scale_preset, <<"R", "e", "s", "o", "l", "u", "t", "i", "o", "n", " ", "s", "u", "g", "g", "e", "s", "t", "i", "o", "n">>)
        percentage == _scale_from_percentage_preset(scale_preset)
    IN  IF is_suggestion
        THEN CHOOSE r \in { <<image, new[1], new[2],
                              Info(w, h, multiple_of, profile_label, scale_preset,
                                   <<(w - new[1]) * 100, w>>, <<new[1], w>>, new)>> :
                            new \in {_get_suggestion_target(w, h, multiple_of, scale_preset)} } : TRUE
        ELSE CHOOSE r \in { <<image, new[1], new[2],
                              Info(w, h, multiple_of, profile_label, scale_preset,
                                   <<percentage[1], 1>>, <<percentage[2].tenths, 10>>, new)>> :
                            new \in {_scale_and_snap(w, h, percentage[2], multiple_of)} } : TRUE

\* faulty variant: the size check lets a side of 0 through
calc_strict_guard(image, model_profile, scale_preset) ==
    LET h == image.shape[2]
        w == image.shape[3]
    IN  IF h < 0 \/ w < 0
        THEN <<image, w, h, InvalidInfo>>
        ELSE Plan(image, w, h, model_profile, scale_preset)

\* the returned tuple (image, width, height, info)
calc(image, model_profile, scale_preset) ==
    LET h == image.shape[2]
        w == image.shape[3]
    IN  IF h <= 0 \/ w <= 0
        THEN <<image, w, h, InvalidInfo>>
        ELSE Plan(image, w, h, model_profile, scale_preset)

\* ------------------------------------------------------- the node in a workflow

\* image sizes (width, height) a workflow can load: every small size, every
\* key of the table, and sizes off the table around the multiples
OtherSizes ==
    { <<1234, 987>>, <<45, 45>>, <<85, 165>>, <<100, 100>>, <<64, 64>>, <<63, 65>>,
      <<33, 31>>, <<130, 70>>, <<5, 720>>, <<1280, 0>>, <<0, 720>>, <<1000, 1000>>,
      <<1919, 1080>>, <<1152, 648>>, <<4096, 4096>> }

Sizes == ((0..MaxSmallDim) \X (0..MaxSmallDim)) \cup TableKeys \cup OtherSizes

Range(s) == { s[i] : i \in DOMAIN s }

Profiles == Range(ModelProfiles) \cup OtherProfiles
Presets == Range(ScalePresets) \cup OtherPresets

NoResult == <<>>

VARIABLES
    image,          \* the IMAGE input of the node
    model_profile,  \* the model_profile input
    scale_preset,   \* the scale_preset input
    result,         \* what calc returned, NoResult before the call
    pc,             \* "ready": inputs set, calc not yet run; "done": calc returned
    chain,          \* how many times the output size was fed back
    prev            \* the (width, height) the previous run returned, when chain > 0

vars == <<image, model_profile, scale_preset, result, pc, chain, prev>>

Init ==
    /\ \E s \in Sizes : image = Image("loaded", s[1], s[2])
    /\ model_profile \in Profiles
    /\ scale_preset \in Presets
    /\ result = NoResult
    /\ pc = "ready"
    /\ chain = 0
    /\ prev = <<>>

\* the host runs the node: FUNCTION = "calc"
Calc ==
    /\ pc = "ready"
    /\ result' = calc(image, model_profile, scale_preset)
    /\ pc' = "done"
    /\ UNCHANGED <<image, model_profile, scale_preset, chain, prev>>

\* the typical flow: width/height go to a resize node, and the resized image
\* is run through the node again with the same profile and any dropdown preset
Resize ==
    /\ pc = "done"
    /\ chain < MaxChain
    /\ result[2] > 0 /\ result[3] > 0
    /\ image' = Image("resized", result[2], result[3])
    /\ scale_preset' \in Range(ScalePresets)
    /\ prev' = <<result[2], result[3]>>
    /\ chain' = chain + 1
    /\ result' = NoResult
    /\ pc' = "ready"
    /\ UNCHANGED model_profile

Next == Calc \/ Resize

Spec == Init /\ [][Next]_vars

\* =================================================================== claims

\* the inputs and outputs of the run the state describes
Width == image.shape[3]
Height == image.shape[2]
Valid == Width > 0 /\ Height > 0
Done == pc = "done"
OutSize == <<result[2], result[3]>>
\* the raw pair of the "result: raw WxH -> snapped WxH" part of info
OutRaw == <<result[4][4][2], result[4][4][4]>>
SizeOf(r) == <<r[2], r[3]>>

FixedProfile == model_profile \in Range(ModelProfiles)
FixedPreset == scale_preset \in Range(ScalePresets)

\* multiple_of of the i-th dropdown profile: 8, 16, 32, 64
Granularity(i) == 2 ^ (i + 2)
\* multiple_of of the profile of the state, for a dropdown profile
MultipleOf == Granularity(CHOOSE i \in 1..4 : ModelProfiles[i] = model_profile)
\* multiple_of the code resolves for any selector
ResolvedMultiple == _profile_to_multiple(model_profile)[1]

\* rank r (1..4) of the suggestion presets of the dropdown
SuggestionPreset(r) == ScalePresets[7 + r]
PercentagePath == ~StartsWith(scale_preset, <<"R", "e", "s", "o", "l", "u", "t", "i", "o", "n", " ", "s", "u", "g", "g", "e", "s", "t", "i", "o", "n">>)

Floor(v, m) == (v \div m) * m
Max(a, b) == IF a >= b THEN a ELSE b

\* ------------------------------------------------------------------- C1
\* C1 as stated: never upscale.  For every valid size, every multiple_of in
\* {8,16,32,64} and every scale k/10 in (0,1], _scale_and_snap returns
\* newW <= w and newH <= h, also when a side is below multiple_of; and so
\* does the node on the percentage path.
C1_NeverUpscale ==
    (Done /\ Valid /\ FixedProfile) =>
        /\ \A k \in 1..10 :
              LET r == _scale_and_snap(Width, Height, Double(k), MultipleOf)
              IN  r[1] <= Width /\ r[2] <= Height
        /\ PercentagePath => (result[2] <= Width /\ result[3] <= Height)

\* C1 amended: a side that is at least multiple_of is never exceeded; a side
\* below multiple_of comes back as exactly multiple_of (one unit), which is
\* larger than the original: the safety clamp re-snaps to the same unit.
C1_NeverUpscaleFromOneUnit ==
    (Done /\ Valid /\ FixedProfile) =>
        /\ \A k \in 1..10 :
              LET r == _scale_and_snap(Width, Height, Double(k), MultipleOf)
              IN  /\ Width >= MultipleOf => r[1] <= Width
                  /\ Height >= MultipleOf => r[2] <= Height
                  /\ Width < MultipleOf => r[1] = MultipleOf
                  /\ Height < MultipleOf => r[2] = MultipleOf
        /\ PercentagePath =>
              /\ Width >= MultipleOf => result[2] <= Width
              /\ Height >= MultipleOf => result[3] <= Height
              /\ Width < MultipleOf => result[2] = MultipleOf
              /\ Height < MultipleOf => result[3] = MultipleOf

\* a percentage run that shrank one side that was large enough and raised the
\* other, smaller than one unit, to the unit
C1_Witness ==
    /\ Done /\ Valid /\ FixedProfile /\ PercentagePath
    /\ Width >= MultipleOf /\ result[2] < Width
    /\ Height < MultipleOf /\ result[3] = MultipleOf

\* ------------------------------------------------------------------- C2
\* C2: for every valid size, each of the 4 profiles and each of the 11
\* presets, the returned width and height are positive multiples of the
\* profile's multiple_of and at least multiple_of.
C2_PositiveMultiples ==
    (Done /\ Valid /\ FixedProfile /\ FixedPreset) =>
        /\ result[2] % MultipleOf = 0 /\ result[3] % MultipleOf = 0
        /\ result[2] >= MultipleOf /\ result[3] >= MultipleOf

\* a table hit whose literal target is no multiple of 64, snapped down to one
C2_Witness ==
    /\ Done /\ FixedProfile /\ MultipleOf = 64
    /\ Width = 1920 /\ Height = 1080 /\ scale_preset = SuggestionPreset(1)
    /\ OutRaw = <<1600, 900>> /\ OutSize = <<1600, 896>>

\* ------------------------------------------------------------------- C3
Is1280x720Default30 ==
    /\ Done /\ Width = 1280 /\ Height = 720
    /\ model_profile = DefaultModelProfile
    /\ scale_preset = DefaultScalePreset

C4_InvalidSize ==
    (Done /\ ~Valid) =>
        /\ result[1] = image
        /\ result[2] = Width /\ result[3] = Height
        /\ Len(result[4]) = 1
        /\ \E i \in DOMAIN result[4][1] : result[4][1][i] = "Invalid image size"

C4_Witness ==
    /\ Done /\ Width = 0 /\ Height = 720
    /\ OutSize = <<0, 720>> /\ result[1] = image
    /\ scale_preset = SuggestionPreset(1)

\* ------------------------------------------------------------------- C5
ProfilePrefixes ==
    { <<"m", "u", "l", "t", "i", "p", "l", "e", "_", "o", "f", ":", " ", "8">>,
      <<"m", "u", "l", "t", "i", "p", "l", "e", "_", "o", "f", ":", " ", "1", "6">>,
      <<"m", "u", "l", "t", "i", "p", "l", "e", "_", "o", "f", ":", " ", "3", "2">>,
      <<"m", "u", "l", "t", "i", "p", "l", "e", "_", "o", "f", ":", " ", "6", "4">> }

PercentagePrefixes ==
    { <<"0", "%">>, <<"1", "0", "%">>, <<"2", "0", "%">>, <<"3", "0", "%">>,
      <<"4", "0", "%">>, <<"5", "0", "%">>, <<"6", "0", "%">> }

RankMarkers ==
    { <<"s", "u", "g", "g", "e", "s", "t", "i", "o", "n", " ", "1">>,
      <<"s", "u", "g", "g", "e", "s", "t", "i", "o", "n", " ", "2">>,
      <<"s", "u", "g", "g", "e", "s", "t", "i", "o", "n", " ", "3">>,
      <<"s", "u", "g", "g", "e", "s", "t", "i", "o", "n", " ", "4">>,
      <<"v", "e", "r", "y", " ", "l", "o", "w", " ", "v", "r", "a", "m">> }

\* no profile prefix matches
UnknownProfile == \A p \in ProfilePrefixes : ~StartsWith(model_profile, p)
\* a selector on the percentage path that matches no percentage prefix
UnknownPercentage ==
    PercentagePath /\ \A p \in PercentagePrefixes : ~StartsWith(scale_preset, p)
\* a selector on the suggestion path that names no rank
UnrankedSuggestion ==
    ~PercentagePath /\ \A m \in RankMarkers : ~Contains(Lower(scale_preset), m)

\* C5 as stated: any profile outside the 4 dropdown values behaves exactly as
\* the first profile, and any preset outside the 11 dropdown values (also
\* one that begins with "Resolution suggestion" and names no rank) returns
\* the size of the first preset, "0% smaller".
C5_FallbackToFirst ==
    (Done /\ Valid) =>
        /\ ~FixedProfile => result = calc(image, ModelProfiles[1], scale_preset)
        /\ ~FixedPreset =>
              OutSize = SizeOf(calc(image, model_profile, ScalePresets[1]))

\* C5 amended: selectors are matched by prefix.  A profile that starts with
\* none of the four "multiple_of: N" prefixes behaves exactly as the first
\* profile; a preset that starts neither with "Resolution suggestion" nor
\* with one of the seven "N%" prefixes returns the size of "0% smaller"; a
\* preset that starts with "Resolution suggestion" and names no rank returns
\* _scale_and_snap(w, h, 0.5, multiple_of), the size of the last preset
\* (rank 4); a selector that starts with the "multiple_of: N" or "N%" prefix
\* of a dropdown value behaves as that value; a value is returned in every
\* case.
C5_FallbackByPrefix ==
    (Done /\ Valid) =>
        /\ Len(result) = 4
        /\ UnknownProfile =>
              /\ ResolvedMultiple = 8
              /\ result = calc(image, ModelProfiles[1], scale_preset)
        /\ UnknownPercentage =>
              /\ OutSize = SizeOf(calc(image, model_profile, ScalePresets[1]))
              /\ OutRaw = <<Width, Height>>
        /\ \A i \in 1..4 :
              StartsWith(model_profile, SubSeq(ModelProfiles[i], 1, IF i = 1 THEN 14 ELSE 15)) =>
                  /\ ResolvedMultiple = Granularity(i)
                  /\ result = calc(image, ModelProfiles[i], scale_preset)
        /\ \A i \in 1..7 :
              StartsWith(scale_preset, SubSeq(ScalePresets[i], 1, IF i = 1 THEN 2 ELSE 3)) =>
                  OutSize = SizeOf(calc(image, model_profile, ScalePresets[i]))
        /\ UnrankedSuggestion =>
              /\ OutSize = SizeOf(calc(image, model_profile, SuggestionPreset(4)))
              /\ OutSize = <<Max(ResolvedMultiple, Floor(OutRaw[1], ResolvedMultiple)),
                             Max(ResolvedMultiple, Floor(OutRaw[2], ResolvedMultiple))>>
              /\ 2 * OutRaw[1] - Width \in {-1, 0, 1}

\* an unknown profile with an unranked suggestion selector on 100x100: half
\* the size at multiple_of 8
C5_Witness ==
    /\ Done /\ Width = 100 /\ Height = 100
    /\ ~FixedProfile /\ UnknownProfile
    /\ ~FixedPreset /\ UnrankedSuggestion
    /\ OutSize = <<48, 48>>

\* ------------------------------------------------------------------- C6
\* round(n * 0.5): half of n, a half rounded to the even neighbour
HalfRounded(n) ==
    LET q == n \div 2 IN IF n % 2 = 1 /\ q % 2 = 1 THEN q + 1 ELSE q

\* C6: rank 4 ignores the table.  For every valid size, a key of the table
\* or not, and every multiple_of, the rank 4 target is exactly
\* _scale_and_snap(w, h, 0.5, multiple_of), snapped pair and raw pair: the
\* raw pair is the rounded half of each side and the snapped pair its floor
\* to multiple_of, at least one unit.
C6_Rank4IsHalfScale ==
    (Done /\ Valid /\ scale_preset = SuggestionPreset(4)) =>
        LET half == _scale_and_snap(Width, Height, Double(5), ResolvedMultiple)
        IN  /\ _get_suggestion_target(Width, Height, ResolvedMultiple, scale_preset) = half
            /\ OutSize = <<half[1], half[2]>>
            /\ OutRaw = <<half[3], half[4]>>
            /\ OutRaw = <<HalfRounded(Width), HalfRounded(Height)>>
            /\ OutSize = <<Max(ResolvedMultiple, Floor(OutRaw[1], ResolvedMultiple)),
                           Max(ResolvedMultiple, Floor(OutRaw[2], ResolvedMultiple))>>

\* rank 4 on the table key 3840x2160, whose table list holds no 1920x1080 at
\* that rank
C6_Witness ==
    /\ Done /\ Width = 3840 /\ Height = 2160
    /\ <<Width, Height>> \in DOMAIN _get_common_resolution_table
    /\ scale_preset = SuggestionPreset(4)
    /\ model_profile = ModelProfiles[1]
    /\ OutSize = <<1920, 1080>>

\* ------------------------------------------------------------------- C7
\* the preset of the state is rank r of the dropdown
IsRank(r) == scale_preset = SuggestionPreset(r)

\* C7: ranks 1..3.  On an exact key of the table the result is the entry at
\* index rank-1 of the key's list (the last entry of a shorter list), each
\* axis floored to multiple_of and re-snapped from the original if it would
\* exceed it, and the raw pair is the literal entry; rank 1 on 1920x1080 with
\* multiple_of 8 is 1600x896 from "1600x900", not the 0.8-scale 1536x864.
\* Off the table the result is _scale_and_snap(w, h, s, multiple_of) with
\* s = 0.8, 0.7, 0.6 for rank 1, 2, 3; rank 2 on 1234x987 is 864x688.
C7_TableThenScale ==
    (Done /\ Valid) =>
        /\ \A r \in 1..3 : IsRank(r) =>
              LET m == ResolvedMultiple
                  hit == <<Width, Height>> \in DOMAIN _get_common_resolution_table
                  list == _parse_res_list(_get_common_resolution_table[<<Width, Height>>])
                  entry == list[IF r <= Len(list) THEN r ELSE Len(list)]
                  scaled == _scale_and_snap(Width, Height, Double(9 - r), m)
              IN  IF hit
                  THEN /\ OutRaw = entry
                       /\ result[2] = IF Floor(entry[1], m) > Width
                                      THEN _snap_dim(Width, m) ELSE Floor(entry[1], m)
                       /\ result[3] = IF Floor(entry[2], m) > Height
                                      THEN _snap_dim(Height, m) ELSE Floor(entry[2], m)
                  ELSE /\ OutSize = <<scaled[1], scaled[2]>>
                       /\ OutRaw = <<scaled[3], scaled[4]>>
        /\ (IsRank(1) /\ Width = 1920 /\ Height = 1080 /\ model_profile = ModelProfiles[1]) =>
              (OutSize = <<1600, 896>> /\ OutRaw = <<1600, 900>>)
        /\ (IsRank(2) /\ Width = 1234 /\ Height = 987 /\ model_profile = ModelProfiles[1]) =>
              (OutSize = <<864, 688>> /\ OutRaw = <<864, 691>>)

\* rank 3 on a table key whose list has five entries, at multiple_of 32
C7_Witness ==
    /\ Done /\ IsRank(3) /\ Width = 1920 /\ Height = 1080
    /\ model_profile = ModelProfiles[3]
    /\ OutRaw = <<1280, 720>> /\ OutSize = <<1280, 704>>

\* ------------------------------------------------------------------- C8
\* C8: rank 1 is the closest to the original.  For every valid size and
\* every multiple_of the results do not grow on either axis as the rank goes
\* 1, 2, 3, 4: the result of the rank that ran is at least as wide and as
\* tall as the result of every later rank on the same input.
C8_RanksDescend ==
    (Done /\ Valid /\ FixedProfile) =>
        \A r \in 1..3 : IsRank(r) =>
            \A later \in (r + 1)..4 :
                LET other == calc(image, model_profile, SuggestionPreset(later))
                IN  result[2] >= other[2] /\ result[3] >= other[3]

\* ------------------------------------------------------------------- C9
\* the indices of the literal's entries written for the size of the state
EntriesOfKey ==
    { i \in DOMAIN TableLiteral : <<TableLiteral[i][1], TableLiteral[i][2]>> = <<Width, Height>> }

\* C9: shape of the table.  The key of the input is written with one list
\* only, the list has at most 3 pairs, each pair is no larger than the one
\* before it, and every pair is no larger than the key on either axis.
C9_TableShape ==
    (Done /\ EntriesOfKey # {}) =>
        LET list == _parse_res_list(_get_common_resolution_table[<<Width, Height>>])
        IN  /\ \A i, j \in EntriesOfKey : TableLiteral[i][3] = TableLiteral[j][3]
            /\ Len(list) <= 3
            /\ \A i \in 1..(Len(list) - 1) :
                  list[i + 1][1] <= list[i][1] /\ list[i + 1][2] <= list[i][2]
            /\ \A i \in 1..Len(list) : list[i][1] <= Width /\ list[i][2] <= Height

\* ------------------------------------------------------------------- C10
\* C10: "0% smaller" is the identity on snapped sizes.  For every multiple_of
\* in {8,16,32,64} and every input whose sides are positive multiples of it
\* the node returns the input size; and run on the size an earlier run
\* returned, with the same profile, it returns that size again.
C10_ZeroPercentIdentity ==
    (Done /\ scale_preset = ScalePresets[1]) =>
        /\ (/\ FixedProfile /\ Valid
            /\ Width % MultipleOf = 0 /\ Height % MultipleOf = 0) =>
              OutSize = <<Width, Height>>
        /\ chain > 0 => OutSize = prev

\* the size a 30% run returned for 1920x1080 at multiple_of 16, run again
\* with "0% smaller"
C10_Witness ==
    /\ Done /\ chain > 0 /\ scale_preset = ScalePresets[1]
    /\ model_profile = ModelProfiles[2]
    /\ image.id = "resized" /\ prev = <<1344, 752>>
    /\ OutSize = <<1344, 752>>
====
